---- MODULE Spec2Model ----
(***************************************************************************)
(* A state-machine model of flair/models/language_model.py: the            *)
(* LanguageModel container (construction, forward, hidden slot), its       *)
(* persistence (save, save_checkpoint, load_language_model,                *)
(* load_checkpoint) and the sampling loop of generate_text.                *)
(*                                                                         *)
(* Tensors are abstracted to small integers (their numeric content) and to *)
(* records of widths (their shapes).  The LSTM, nn.Linear and nn.Embedding *)
(* kernels are deterministic stand-in functions of exactly the arguments   *)
(* the real kernels read; nn.Dropout is modelled by what it does.          *)
(***************************************************************************)
EXTENDS Integers, Sequences, FiniteSets, TLC

(* ------------------------------ bounds --------------------------------- *)
MaxDict == 2      \* dictionaries hold 0..MaxDict symbols
MaxChars == 2     \* number_of_characters ranges over 0..MaxChars
MaxWeight == 1    \* a weight tensor's content ranges over 0..MaxWeight

(* ------------------------- Python values ------------------------------- *)
\* Python's None and a present value, kept comparable with each other.
None == <<>>
Some(x) == <<x>>
IsNone(v) == v = <<>>
Val(v) == v[1]

\* "no object": no model bound, no file written, nothing returned yet.
NoModel == [absent |-> "model"]
NoFile == [absent |-> "file"]
NoSave == [absent |-> "save"]

(* -------------------- Dictionary (flair.data) -------------------------- *)
\* idx2item holds the UTF-8 bytes of each item, in index order.
\* "<unk>", "a", U+00E9 (two bytes), "b".
Alphabet == << <<60, 117, 110, 107, 62>>, <<97>>, <<195, 169>>, <<98>>, <<99>> >>
Dictionaries == { SubSeq(Alphabet, 1, k) : k \in 0..MaxDict }

\* bytes.decode('UTF-8'), for one- and two-byte encodings: the code points.
RECURSIVE DecodeUTF8(_)
DecodeUTF8(bytes) ==
    IF bytes = <<>> THEN <<>>
    ELSE IF bytes[1] < 128
         THEN <<bytes[1]>> \o DecodeUTF8(Tail(bytes))
         ELSE << (bytes[1] - 192) * 64 + (bytes[2] - 128) >>
              \o DecodeUTF8(Tail(Tail(bytes)))

\* str.encode('utf-8') of one character (a code point below 2048).
EncodeUTF8(cp) ==
    IF cp < 128 THEN <<cp>> ELSE << 192 + (cp \div 64), 128 + (cp % 64) >>

\* Dictionary.get_idx_for_item: the item's index, 0 for an unknown item.
get_idx_for_item(dictionary, cp) ==
    IF \E i \in 1..Len(dictionary) : dictionary[i] = EncodeUTF8(cp)
    THEN (CHOOSE i \in 1..Len(dictionary) : dictionary[i] = EncodeUTF8(cp)) - 1
    ELSE 0

\* ''.join(characters): the concatenation of the decoded symbols.
RECURSIVE Join(_)
Join(characters) ==
    IF characters = <<>> THEN <<>>
    ELSE Head(characters) \o Join(Tail(characters))

(* --------------------------- construction ------------------------------ *)
WeightVals == 0..MaxWeight

\* The parameter names of the module tree: proj.weight only with a projection.
ParamNames(nout) ==
    {"encoder.weight", "rnn.weight", "decoder.weight", "decoder.bias"}
    \cup (IF IsNone(nout) THEN {} ELSE {"proj.weight"})

\* The parameters after construction: every tensor randomly initialised
\* (w stands for the draw), decoder.bias filled with 0 by init_weights.
InitialStateDict(nout, w) ==
    [p \in ParamNames(nout) |-> IF p = "decoder.bias" THEN 0 ELSE w]

init_weights(nout, w) == InitialStateDict(nout, w)

\* nn.Embedding / nn.LSTM reject the sizes they cannot allocate: a negative
\* width always; a zero hidden width or a layer count below 1 only where the
\* installed torch validates them (validates = TRUE).
LibraryRejects(validates, hidden_size, nlayers, embedding_size) ==
    IF embedding_size < 0 THEN "RuntimeError"
    ELSE IF validates /\ (hidden_size <= 0 \/ nlayers <= 0) THEN "ValueError"
    ELSE IF hidden_size < 0 THEN "RuntimeError"
    ELSE "ok"

\* Lines 46-53: the projection layer, present exactly when nout is given.
MakeProj(hidden_size, nout) ==
    IF ~IsNone(nout)
    THEN Some([in_features |-> hidden_size, out_features |-> Val(nout)])
    ELSE None

\* Mutant: the decoder always sized for the raw hidden width.
MakeDecoderFromHidden(dictionary, hidden_size, nout) ==
    [in_features |-> hidden_size, out_features |-> Len(dictionary)]

\* Lines 46-53: the decoder reads the projection when there is one.
MakeDecoder(dictionary, hidden_size, nout) ==
    IF ~IsNone(nout)
    THEN [in_features |-> Val(nout), out_features |-> Len(dictionary)]
    ELSE [in_features |-> hidden_size, out_features |-> Len(dictionary)]

\* LanguageModel.__init__: the instance, or the library's error.  A fresh
\* nn.Module is in training mode.
Construct(validates, dictionary, is_forward_lm, hidden_size, nlayers, embedding_size, nout, dropout, w) ==
    LET verdict == LibraryRejects(validates, hidden_size, nlayers, embedding_size)
    IN IF verdict # "ok"
       THEN [kind |-> verdict, model |-> NoModel]
       ELSE [kind |-> "ok",
             model |->
               [dictionary |-> dictionary,
                is_forward_lm |-> is_forward_lm,
                dropout |-> dropout,
                hidden_size |-> hidden_size,
                embedding_size |-> embedding_size,
                nlayers |-> nlayers,
                encoder |-> [num_embeddings |-> Len(dictionary),
                             embedding_dim |-> embedding_size],
                rnn |-> [input_size |-> embedding_size,
                         hidden_size |-> hidden_size,
                         num_layers |-> nlayers,
                         dropout |-> IF nlayers = 1 THEN 0 ELSE dropout],
                hidden |-> None,
                nout |-> nout,
                proj |-> MakeProj(hidden_size, nout),
                decoder |-> MakeDecoder(dictionary, hidden_size, nout),
                state_dict |-> init_weights(nout, w),
                training |-> TRUE]]

(* ------------------------------ forward -------------------------------- *)
\* A dropout draw for one forward call: which of the two self.drop
\* applications zeroes its activation.
Masks == [emb : BOOLEAN, out : BOOLEAN]
NoMask == [emb |-> FALSE, out |-> FALSE]

\* nn.Dropout(p): the identity in inference mode or when p = 0; in training
\* mode a dropped activation is 0 and a kept one is scaled by 1/(1-p).
Drop(m, x, dropped) ==
    IF m.training /\ m.dropout > 0
    THEN (IF dropped THEN 0 ELSE (x * 100) \div (100 - m.dropout))
    ELSE x

\* The draws that can differ for m: dropout draws nothing unless it is active.
DropoutDraws(m) == IF m.training /\ m.dropout > 0 THEN Masks ELSE {NoMask}

\* init_hidden(bsz): zero tensors of shape (nlayers, bsz, hidden_size).
init_hidden(m, bsz) ==
    [shape |-> <<m.nlayers, bsz, m.hidden_size>>,
     h |-> [b \in 1..bsz |-> 0],
     c |-> [b \in 1..bsz |-> 0]]

\* One time step of one batch element through encoder, dropout and LSTM
\* (lines 70-75).  A tensor of width 0 carries no value.
Cell(m, idx, h, c, mask) ==
    LET encoded == IF m.embedding_size = 0 THEN 0
                   ELSE m.state_dict["encoder.weight"] + idx + 1
        emb == Drop(m, encoded, mask.emb)
        c2 == IF m.hidden_size = 0 THEN 0
              ELSE (c + emb + m.state_dict["rnn.weight"]) % 3
        h2 == IF m.hidden_size = 0 THEN 0 ELSE (c2 + 2 * h) % 3
    IN [h |-> h2, c |-> c2]

\* Lines 77-80: projection when configured, then dropout.
Represent(m, h, mask) ==
    LET projected == IF ~IsNone(m.proj)
                     THEN (h + m.state_dict["proj.weight"] + 1) % 3
                     ELSE h
    IN Drop(m, projected, mask.out)

\* Lines 82-84: the decoder's logits, one per dictionary index 0..N-1
\* (position k+1 holds the logit of index k).
Logits(m, output) ==
    [k \in 1..m.decoder.out_features |->
        (output * (m.state_dict["decoder.weight"] + 1)
         + m.state_dict["decoder.bias"] + k) % 3]

\* The recurrent scan over the time steps from t on: the hidden state after
\* each step, as a sequence of [h, c] pairs of batch vectors.
RECURSIVE Scan(_, _, _, _, _, _)
Scan(m, input, t, h, c, mask) ==
    IF t > Len(input) THEN <<>>
    ELSE LET bsz == Len(input[t])
             step == [b \in 1..bsz |-> Cell(m, input[t][b], h[b], c[b], mask)]
             h2 == [b \in 1..bsz |-> step[b].h]
             c2 == [b \in 1..bsz |-> step[b].c]
         IN <<[h |-> h2, c |-> c2]>> \o Scan(m, input, t + 1, h2, c2, mask)

\* forward(input, hidden): input is sequence-major (time, then batch).
\* The encoder rejects an index outside its table, the LSTM a layer count
\* below 1 and a hidden state of another shape.
Forward(m, input, hidden, mask) ==
    LET bsz == Len(input[1])
        bad == \E t \in 1..Len(input) : \E b \in 1..Len(input[t]) :
                  input[t][b] < 0 \/ input[t][b] >= m.encoder.num_embeddings
    IN IF bad THEN [kind |-> "IndexError"]
       ELSE IF m.rnn.num_layers < 1 THEN [kind |-> "RuntimeError"]
       ELSE IF hidden.shape # <<m.rnn.num_layers, bsz, m.rnn.hidden_size>>
            THEN [kind |-> "RuntimeError"]
       ELSE LET states == Scan(m, input, 1, hidden.h, hidden.c, mask)
                output == [t \in 1..Len(input) |->
                             [b \in 1..bsz |-> Represent(m, states[t].h[b], mask)]]
                last == states[Len(input)]
            IN [kind |-> "ok",
                decoded |-> [t \in 1..Len(input) |->
                               [b \in 1..bsz |-> Logits(m, output[t][b])]],
                output |-> output,
                hidden |-> [shape |-> hidden.shape, h |-> last.h, c |-> last.c]]

(* ---------------------------- persistence ------------------------------ *)
ConfigKeys == {"dictionary", "is_forward_lm", "hidden_size", "nlayers",
               "embedding_size", "nout", "dropout"}
OptionalKeys == {"epoch", "split", "loss", "optimizer_state_dict"}
AllKeys == ConfigKeys \cup {"state_dict"} \cup OptionalKeys

\* save: the mapping handed to torch.save (lines 178-187).
SaveRecord(m) ==
    [state_dict |-> m.state_dict,
     dictionary |-> m.dictionary,
     is_forward_lm |-> m.is_forward_lm,
     hidden_size |-> m.hidden_size,
     nlayers |-> m.nlayers,
     embedding_size |-> m.embedding_size,
     nout |-> m.nout,
     dropout |-> m.dropout]

\* Mutant: epoch and split stored under each other's key.
CheckpointRecordSwapped(m, optimizer, epoch, split, loss) ==
    [state_dict |-> m.state_dict,
     dictionary |-> m.dictionary,
     is_forward_lm |-> m.is_forward_lm,
     hidden_size |-> m.hidden_size,
     nlayers |-> m.nlayers,
     embedding_size |-> m.embedding_size,
     nout |-> m.nout,
     dropout |-> m.dropout,
     optimizer_state_dict |-> optimizer,
     epoch |-> split,
     split |-> epoch,
     loss |-> loss]

\* save_checkpoint: the mapping handed to torch.save (lines 160-173).
CheckpointRecord(m, optimizer, epoch, split, loss) ==
    [state_dict |-> m.state_dict,
     dictionary |-> m.dictionary,
     is_forward_lm |-> m.is_forward_lm,
     hidden_size |-> m.hidden_size,
     nlayers |-> m.nlayers,
     embedding_size |-> m.embedding_size,
     nout |-> m.nout,
     dropout |-> m.dropout,
     optimizer_state_dict |-> optimizer,
     epoch |-> epoch,
     split |-> split,
     loss |-> loss]

\* state[key] if key in state else None (lines 141-144).
Optional(state, key) == IF key \in DOMAIN state THEN state[key] ELSE None

\* Mutant: the stored weights are never loaded into the fresh model.
LoadStateDictSkipped(m, sd) == [kind |-> "ok", model |-> m]

\* nn.Module.load_state_dict (strict): the parameter names must be the
\* module's own; the tensors then replace the module's.
load_state_dict(m, sd) ==
    IF DOMAIN sd # ParamNames(m.nout)
    THEN [kind |-> "RuntimeError", model |-> NoModel]
    ELSE [kind |-> "ok", model |-> [m EXCEPT !.state_dict = sd]]

\* nn.Module.eval() / train(): the mode flag.
SetTraining(m, flag) == [m EXCEPT !.training = flag]

\* Lines 124-135 and 146-155, shared by both loaders: rebuild the model from
\* the record, load the weights, switch to inference mode.  A subscript of a
\* key the record lacks raises KeyError; w is the fresh model's random draw.
Rebuild(validates, state, w) ==
    IF ~(ConfigKeys \subseteq DOMAIN state)
    THEN [kind |-> "KeyError", model |-> NoModel]
    ELSE LET built == Construct(validates, state["dictionary"], state["is_forward_lm"], state["hidden_size"], state["nlayers"], state["embedding_size"], state["nout"], state["dropout"], w)
         IN IF built.kind # "ok" THEN built
            ELSE IF "state_dict" \notin DOMAIN state
                 THEN [kind |-> "KeyError", model |-> NoModel]
                 ELSE LET loaded == load_state_dict(built.model, state["state_dict"])
                      IN IF loaded.kind # "ok" THEN loaded
                         ELSE [kind |-> "ok", model |-> SetTraining(loaded.model, FALSE)]

\* load_language_model (lines 119-135): the model, or the error raised.
LoadLanguageModel(validates, state, w) ==
    IF state = NoFile THEN [kind |-> "FileNotFoundError", model |-> NoModel]
    ELSE Rebuild(validates, state, w)

\* load_checkpoint (lines 137-157): the returned record, or the error raised.
LoadCheckpoint(validates, state, w) ==
    IF state = NoFile THEN [kind |-> "FileNotFoundError", model |-> NoModel]
    ELSE LET epoch == Optional(state, "epoch")
             split == Optional(state, "split")
             loss == Optional(state, "loss")
             optimizer_state_dict == Optional(state, "optimizer_state_dict")
             rebuilt == Rebuild(validates, state, w)
         IN IF rebuilt.kind # "ok" THEN rebuilt
            ELSE [kind |-> "ok", model |-> rebuilt.model, epoch |-> epoch,
                  split |-> split, loss |-> loss,
                  optimizer_state_dict |-> optimizer_state_dict]

(* ------------------------- get_representation -------------------------- *)
\* Strings as sequences of code points: "a", "a" U+00E9, "z" (not in any
\* dictionary), U+00E9.
StringInputs == { <<>>, << <<97>> >>, << <<97, 233>>, <<122>> >>, << <<233>>, <<122>> >> }
FewStringInputs == { << <<97, 233>>, <<122>> >>, << <<233>>, <<122>> >> }

\* repackage_hidden: the same values, cut from the computation history.
repackage_hidden(t) == [t EXCEPT !.attached = FALSE]

\* get_representation (lines 91-105).  torch.tensor rejects a ragged list
\* (ValueError); an empty list gives a 1-D tensor that transpose(0, 1)
\* rejects (IndexError).
get_representation(m, strings, detach_from_lm, mask) ==
    IF strings = <<>> THEN [kind |-> "IndexError"]
    ELSE IF \E s \in 1..Len(strings) : Len(strings[s]) # Len(strings[1])
    THEN [kind |-> "ValueError"]
    ELSE LET sequences_as_char_indices ==
                 [s \in 1..Len(strings) |->
                    [t \in 1..Len(strings[s]) |-> get_idx_for_item(m.dictionary, strings[s][t])]]
             batch == [t \in 1..Len(strings[1]) |->
                         [s \in 1..Len(strings) |-> sequences_as_char_indices[s][t]]]
             f == Forward(m, batch, init_hidden(m, Len(strings)), mask)
             rnn_output == [data |-> f.output, attached |-> TRUE]
         IN IF f.kind # "ok" THEN [kind |-> f.kind]
            ELSE [kind |-> "ok",
                  rnn_output |-> IF detach_from_lm THEN repackage_hidden(rnn_output)
                                 ELSE rnn_output]

(* ---------------------------- generate_text ---------------------------- *)
\* torch.rand(1, 1).mul(N).long(): a uniform draw r/3 from [0, 1), scaled by
\* N and truncated.
RandDraws == 0..2
InitialInput(dictionary, r) == (r * Len(dictionary)) \div 3

\* Tensor.squeeze(): every dimension of size 1 is removed.
Squeeze(shape) == SelectSeq(shape, LAMBDA d : d # 1)

\* torch.multinomial accepts a vector or a matrix of weights only.  exp()
\* makes every weight positive, so every index of the vector can be drawn.
MultinomialAccepts(shape) == Len(shape) \in {1, 2}

\* The shape of word_weights: prediction is (1, 1, N), then squeezed.
WordWeightsShape(m) == Squeeze(<<1, 1, m.decoder.out_features>>)

\* Mutant: the loop stores the hidden state it evolves in self.hidden.
ModelStoringHidden(m, hidden) == [m EXCEPT !.hidden = Some(hidden)]

\* What the loop of generate_text does to the model object: nothing.  The
\* hidden state it evolves is the local variable, not self.hidden.
ModelAfterIteration(m, hidden) == m

\* The local variables of generate_text when no call is running.
IdleGen == [pc |-> "idle"]

(* ---------------------------- the state -------------------------------- *)
VARIABLES
    validates,   \* whether the installed torch validates LSTM sizes
    model,       \* the LanguageModel instance the program holds, or NoModel
    disk,        \* the record in the model file, or NoFile
    saved,       \* what the last save / save_checkpoint call was given
    ret,         \* the last operation and what it returned or raised
    gen          \* the local variables of a running generate_text call

vars == <<validates, model, disk, saved, ret, gen>>

Init ==
    /\ validates \in BOOLEAN
    /\ model = NoModel
    /\ disk = NoFile
    /\ saved = NoSave
    /\ ret = [op |-> "none", kind |-> "ok"]
    /\ gen = IdleGen

Idle == gen.pc # "loop"
HasModel == model # NoModel

(* ------------------------------ actions -------------------------------- *)
\* Each action takes the sets its inputs are drawn from.

\* LanguageModel(dictionary, is_forward_lm, hidden_size, nlayers, ...).
New(dictionaries, directions, hiddens, layers, embeddings, nouts, dropouts) ==
    /\ Idle /\ ~HasModel
    /\ \E dictionary \in dictionaries, is_forward_lm \in directions,
          hidden_size \in hiddens, nlayers \in layers,
          embedding_size \in embeddings, nout \in nouts,
          dropout \in dropouts, w \in WeightVals :
          \E r \in {Construct(validates, dictionary, is_forward_lm, hidden_size, nlayers, embedding_size, nout, dropout, w)} :
             /\ model' = r.model
             /\ ret' = [op |-> "__init__", kind |-> r.kind,
                        dictionary |-> dictionary, hidden_size |-> hidden_size,
                        nlayers |-> nlayers, embedding_size |-> embedding_size]
    /\ gen' = IdleGen
    /\ UNCHANGED <<validates, disk, saved>>

\* model.train() / model.eval(), inherited from nn.Module.
SetMode ==
    /\ Idle /\ HasModel
    /\ \E flag \in BOOLEAN :
          /\ flag # model.training
          /\ model' = SetTraining(model, flag)
          /\ ret' = [op |-> "train", kind |-> "ok"]
    /\ gen' = IdleGen
    /\ UNCHANGED <<validates, disk, saved>>

\* set_hidden(hidden): None or a fresh zero state.
SetHidden ==
    /\ Idle /\ HasModel
    /\ \E hidden \in {None, Some(init_hidden(model, 1))} :
          /\ hidden # model.hidden
          /\ model' = [model EXCEPT !.hidden = hidden]
    /\ ret' = [op |-> "set_hidden", kind |-> "ok"]
    /\ gen' = IdleGen
    /\ UNCHANGED <<validates, disk, saved>>

\* forward(input, hidden) on one symbol, from a zero state or the stored one.
ForwardCall(indices) ==
    /\ Idle /\ HasModel
    /\ \E idx \in indices, mask \in DropoutDraws(model),
          hidden \in {init_hidden(model, 1)}
                     \cup (IF IsNone(model.hidden) THEN {} ELSE {Val(model.hidden)}) :
          \E f \in {Forward(model, << <<idx>> >>, hidden, mask)} :
             ret' = IF f.kind = "ok"
                    THEN [op |-> "forward", kind |-> "ok", decoded |-> f.decoded,
                          output |-> f.output, hidden |-> f.hidden]
                    ELSE [op |-> "forward", kind |-> f.kind]
    /\ gen' = IdleGen
    /\ UNCHANGED <<validates, model, disk, saved>>

\* get_representation(strings, detach_from_lm).
GetRepresentation(stringInputs) ==
    /\ Idle /\ HasModel
    /\ \E strings \in stringInputs, detach_from_lm \in BOOLEAN, mask \in DropoutDraws(model) :
          \E g \in {get_representation(model, strings, detach_from_lm, mask)} :
             ret' = IF g.kind = "ok"
                    THEN [op |-> "get_representation", kind |-> "ok",
                          rnn_output |-> g.rnn_output]
                    ELSE [op |-> "get_representation", kind |-> g.kind]
    /\ gen' = IdleGen
    /\ UNCHANGED <<validates, model, disk, saved>>

\* What save and save_checkpoint read of the model: everything but the
\* hidden slot.
Snapshot(m) == [m EXCEPT !.hidden = None]

\* save(file).
Save ==
    /\ Idle /\ HasModel
    /\ disk' = SaveRecord(model)
    /\ saved' = [by |-> "save", model |-> Snapshot(model)]
    /\ ret' = [op |-> "save", kind |-> "ok"]
    /\ gen' = IdleGen
    /\ UNCHANGED <<validates, model>>

\* save_checkpoint(file, optimizer, epoch, split, loss).
SaveCheckpoint(optimizers, epochs, splits, losses) ==
    /\ Idle /\ HasModel
    /\ \E optimizer \in optimizers, epoch \in epochs, split \in splits, loss \in losses :
          /\ disk' = CheckpointRecord(model, optimizer, epoch, split, loss)
          /\ saved' = [by |-> "save_checkpoint", model |-> Snapshot(model),
                       optimizer |-> optimizer, epoch |-> epoch,
                       split |-> split, loss |-> loss]
    /\ ret' = [op |-> "save_checkpoint", kind |-> "ok"]
    /\ gen' = IdleGen
    /\ UNCHANGED <<validates, model>>

\* torch.load: the mapping the file holds, here the written one without the
\* keys it lacks when read back (an older writer, a damaged or foreign file).
TorchLoad(file, missing) ==
    IF file = NoFile THEN NoFile
    ELSE [k \in DOMAIN file \ missing |-> file[k]]

\* model = LanguageModel.load_language_model(file).
LoadModel(missingSets) ==
    /\ Idle
    /\ \E w \in WeightVals, missing \in missingSets :
          \E state \in {TorchLoad(disk, missing)} :
          \E r \in {LoadLanguageModel(validates, state, w)} :
             /\ ret' = [op |-> "load_language_model", kind |-> r.kind,
                        state |-> state, model |-> r.model]
             /\ model' = IF r.kind = "ok" THEN r.model ELSE model
    /\ gen' = IdleGen
    /\ UNCHANGED <<validates, disk, saved>>

\* state = LanguageModel.load_checkpoint(file); model = state['model'].
LoadCheckpointCall(missingSets) ==
    /\ Idle
    /\ \E w \in WeightVals, missing \in missingSets :
          \E state \in {TorchLoad(disk, missing)} :
          \E r \in {LoadCheckpoint(validates, state, w)} :
             /\ ret' = IF r.kind = "ok"
                       THEN [op |-> "load_checkpoint", kind |-> "ok",
                             state |-> state, model |-> r.model,
                             epoch |-> r.epoch, split |-> r.split, loss |-> r.loss,
                             optimizer_state_dict |-> r.optimizer_state_dict]
                       ELSE [op |-> "load_checkpoint", kind |-> r.kind,
                             state |-> state, model |-> NoModel]
             /\ model' = IF r.kind = "ok" THEN r.model ELSE model
    /\ gen' = IdleGen
    /\ UNCHANGED <<validates, disk, saved>>

\* generate_text(number_of_characters): lines 193-199, up to the loop.
GenStart(lengths) ==
    /\ Idle /\ HasModel
    /\ \E number_of_characters \in lengths, r \in RandDraws :
          gen' = [pc |-> "loop",
                  n |-> number_of_characters,
                  i |-> 0,
                  hidden |-> init_hidden(model, 1),
                  input |-> InitialInput(model.dictionary, r),
                  characters |-> <<>>,
                  calls |-> <<>>,
                  sampled |-> <<>>]
    /\ ret' = [op |-> "generate_text", kind |-> "running"]
    /\ UNCHANGED <<validates, model, disk, saved>>

\* One iteration of the loop (lines 202-207).  calls records each forward
\* pass made: its input, the hidden state it was given, and the hidden state
\* it returned if it returned.
GenIterate ==
    /\ gen.pc = "loop" /\ gen.i < gen.n
    /\ \E mask \in DropoutDraws(model), word_idx \in 0..MaxDict :
          \E f \in {Forward(model, << <<gen.input>> >>, gen.hidden, mask)} :
          LET call == [input |-> gen.input, hidden |-> gen.hidden,
                       returned |-> IF f.kind = "ok" THEN Some(f.hidden) ELSE None]
          IN IF f.kind # "ok"
             THEN /\ word_idx = 0
                  /\ gen' = [gen EXCEPT !.pc = "raised", !.calls = Append(@, call)]
                  /\ ret' = [op |-> "generate_text", kind |-> f.kind]
                  /\ model' = model
             ELSE IF ~MultinomialAccepts(WordWeightsShape(model))
             THEN /\ word_idx = 0
                  /\ gen' = [gen EXCEPT !.pc = "raised", !.calls = Append(@, call)]
                  /\ ret' = [op |-> "generate_text", kind |-> "RuntimeError"]
                  /\ model' = model
             ELSE /\ word_idx < Len(f.decoded[1][1])
                  /\ gen' = [gen EXCEPT !.i = @ + 1,
                                        !.hidden = f.hidden,
                                        !.input = word_idx,
                                        !.characters = Append(@, DecodeUTF8(model.dictionary[word_idx + 1])),
                                        !.calls = Append(@, call),
                                        !.sampled = Append(@, word_idx)]
                  /\ ret' = ret
                  /\ model' = ModelAfterIteration(model, f.hidden)
    /\ UNCHANGED <<validates, disk, saved>>

\* Line 209: the loop is over, the joined characters are returned.
GenReturn ==
    /\ gen.pc = "loop" /\ gen.i = gen.n
    /\ gen' = [gen EXCEPT !.pc = "returned"]
    /\ ret' = [op |-> "generate_text", kind |-> "ok", text |-> Join(gen.characters)]
    /\ UNCHANGED <<validates, model, disk, saved>>

(* ----------------------------- input sets ------------------------------ *)
HiddenSizes == {-1, 0, 2}
LayerCounts == {0, 1}
EmbeddingSizes == {-1, 0, 1}
Nouts == {None, Some(1)}
Dropouts == {0, 50}          \* percent
Epochs == {Some(1), Some(2)}
Splits == {Some(3)}
Losses == {Some(4)}
OptimizerStates == {Some("adam")}

\* The key sets a file may lack: none, any of the optional fields, or any
\* one key.
MissingSets == (SUBSET OptionalKeys) \cup {{k} : k \in AllKeys}

(* --------------------------- specifications ---------------------------- *)
\* Construction and the sampling loop, over every configuration.
NextGen ==
    \/ New(Dictionaries, {TRUE}, HiddenSizes, LayerCounts, EmbeddingSizes, Nouts, Dropouts)
    \/ SetMode
    \/ SetHidden
    \/ GenStart(0..MaxChars)
    \/ GenIterate
    \/ GenReturn

SpecGen == Init /\ [][NextGen]_vars

\* Persistence, over the records a file can hold.
NextPersist ==
    \/ New({SubSeq(Alphabet, 1, MaxDict)}, BOOLEAN, {2}, {1}, {1}, Nouts, Dropouts)
    \/ SetMode
    \/ Save
    \/ SaveCheckpoint(OptimizerStates, Epochs, Splits, Losses)
    \/ LoadModel(MissingSets)
    \/ LoadCheckpointCall(MissingSets)

SpecPersist == Init /\ [][NextPersist]_vars

\* Every operation of the class.
Next ==
    \/ New(Dictionaries, {TRUE}, HiddenSizes, LayerCounts, {0, 1}, Nouts, {50})
    \/ SetMode
    \/ SetHidden
    \/ ForwardCall({0, MaxDict})
    \/ GetRepresentation(FewStringInputs)
    \/ Save
    \/ SaveCheckpoint(OptimizerStates, {Some(1)}, Splits, Losses)
    \/ LoadModel({{}, {"nout"}})
    \/ LoadCheckpointCall({{}, {"epoch"}})
    \/ GenStart({0, 1})
    \/ GenIterate
    \/ GenReturn

Spec == Init /\ [][Next]_vars

(* ------------------------------ claims --------------------------------- *)
\* A configuration the documented constructor contract admits.
ProperConfig(m) == m.nlayers >= 1 /\ m.hidden_size > 0 /\ m.embedding_size > 0

GenOver == gen.pc \in {"returned", "raised"}

\* The symbols of the sampled indices, decoded and joined.
SampledText(m, sampled) ==
    Join([i \in 1..Len(sampled) |-> DecodeUTF8(m.dictionary[sampled[i] + 1])])

\* C1: with a non-empty dictionary, generate_text(n) returns after exactly n
\* iterations the string of exactly n sampled dictionary symbols, and
\* generate_text(0) returns the empty string without a forward pass.  Stated
\* for the configurations the constructor contract admits.
C1_GenerateTextReturnsNSymbols ==
    (GenOver /\ Len(model.dictionary) > 0 /\ ProperConfig(model)) =>
        /\ gen.pc = "returned"
        /\ ret.kind = "ok"
        /\ gen.i = gen.n
        /\ Len(gen.sampled) = gen.n
        /\ Len(gen.calls) = gen.n
        /\ ret.text = SampledText(model, gen.sampled)
        /\ (gen.n = 0 => ret.text = <<>>)

\* C2: with an empty dictionary, every generate_text(n) ends in a
\* ConfigurationError raised before the loop starts (no forward pass is
\* made), and never returns a string.  Stated for the configurations the
\* constructor contract admits.
C2_EmptyDictionaryRaises ==
    (GenOver /\ Len(model.dictionary) = 0 /\ ProperConfig(model)) =>
        /\ gen.pc = "raised"
        /\ ret.kind = "ConfigurationError"
        /\ gen.calls = <<>>

\* C3: construction with layer_count < 1, hidden_width <= 0 or
\* embedding_width <= 0 fails at construction and yields no model: the
\* invalid value is never silently accepted.  (The claim also names the
\* error, ConfigurationError; already the failure itself does not hold, even
\* where torch validates the LSTM's sizes.)
C3_InvalidConfigurationRejected ==
    (ret.op = "__init__" /\ validates
     /\ (ret.nlayers < 1 \/ ret.hidden_size <= 0 \/ ret.embedding_size <= 0)) =>
        /\ ret.kind # "ok"
        /\ model = NoModel

\* The configuration of a model, as the claims list it.
Configuration(m) ==
    <<m.is_forward_lm, m.hidden_size, m.nlayers, m.embedding_size, m.nout, m.dropout>>

\* Same configuration, dictionary and weights.
SameModel(a, b) ==
    /\ Configuration(a) = Configuration(b)
    /\ a.dictionary = b.dictionary
    /\ a.state_dict = b.state_dict

\* The last load read back, whole, the file the last save call of kind `by`
\* wrote.
ReadBack(op, by) ==
    /\ ret.op = op
    /\ saved # NoSave
    /\ saved.by = by
    /\ ret.state = disk

\* C4: save_checkpoint followed by load_checkpoint returns exactly the
\* epoch, split and loss supplied, the optimizer's state, and a model with
\* the configuration, dictionary and weights of the saved one.
C4_CheckpointRoundTrip ==
    ReadBack("load_checkpoint", "save_checkpoint") =>
        /\ ret.kind = "ok"
        /\ ret.epoch = saved.epoch
        /\ ret.split = saved.split
        /\ ret.loss = saved.loss
        /\ ret.optimizer_state_dict = saved.optimizer
        /\ SameModel(ret.model, saved.model)

\* A checkpoint written by a model in training mode with a projection has
\* been read back.
C4_Witness ==
    /\ ReadBack("load_checkpoint", "save_checkpoint")
    /\ ret.kind = "ok"
    /\ saved.epoch = Some(2)
    /\ saved.model.training
    /\ ~IsNone(saved.model.nout)

\* The fields the claims call required.
RequiredKeys == {"state_dict", "dictionary", "is_forward_lm", "hidden_size",
                 "nlayers", "embedding_size", "dropout"}

\* C5: load_checkpoint succeeds on every record that carries all required
\* configuration fields and any subset of the optional ones, returning each
\* present optional field with its stored value and each absent one as None.
C5_LoadCheckpointTotal ==
    (ret.op = "load_checkpoint" /\ disk # NoFile
     /\ RequiredKeys \subseteq DOMAIN ret.state) =>
        /\ ret.kind = "ok"
        /\ \A k \in OptionalKeys :
              /\ k \in DOMAIN ret.state => ret[k] = ret.state[k]
              /\ k \notin DOMAIN ret.state => ret[k] = None

\* C6: on a record that lacks a required field both loaders fail with
\* CorruptRecordError and return no model.
C6_MissingFieldIsCorruptRecord ==
    (ret.op \in {"load_language_model", "load_checkpoint"} /\ disk # NoFile
     /\ ~(RequiredKeys \subseteq DOMAIN ret.state)) =>
        /\ ret.kind = "CorruptRecordError"
        /\ ret.model = NoModel

\* The hidden states of batch size 1 that fit m, and forward on one symbol.
HiddenStates(m) ==
    {[shape |-> <<m.nlayers, 1, m.hidden_size>>, h |-> <<a>>, c |-> <<b>>] :
        a \in 0..2, b \in 0..2}
ForwardOne(m, idx, hidden, mask) == Forward(m, << <<idx>> >>, hidden, mask)

\* C7 as claimed: save followed by load_language_model yields a model with
\* the configuration, dictionary and weights of the saved one, and forward
\* gives identical results on both for every identical (input, hidden
\* state), whether the saved model was in training or in inference mode.
C7_ModelRoundTripAnyMode ==
    ReadBack("load_language_model", "save") =>
        /\ ret.kind = "ok"
        /\ SameModel(ret.model, saved.model)
        /\ \A idx \in 0..(Len(saved.model.dictionary) - 1) :
           \A hidden \in HiddenStates(saved.model) :
           \A a \in DropoutDraws(saved.model), b \in DropoutDraws(ret.model) :
              ForwardOne(ret.model, idx, hidden, b) = ForwardOne(saved.model, idx, hidden, a)

\* C7 as amended: the loaded model has the configuration, dictionary and
\* weights of the saved one and is in inference mode; forward on it and
\* forward on the saved model put in inference mode give identical results
\* for every identical (input, hidden state).
C7_ModelRoundTrip ==
    ReadBack("load_language_model", "save") =>
        /\ ret.kind = "ok"
        /\ SameModel(ret.model, saved.model)
        /\ ~ret.model.training
        /\ \A idx \in 0..(Len(saved.model.dictionary) - 1) :
           \A hidden \in HiddenStates(saved.model) :
              /\ ForwardOne(ret.model, idx, hidden, NoMask).kind = "ok"
              /\ ForwardOne(ret.model, idx, hidden, NoMask)
                 = ForwardOne(SetTraining(saved.model, FALSE), idx, hidden, NoMask)

\* A model saved in training mode with dropout and non-zero weights has been
\* read back.
C7_Witness ==
    /\ ReadBack("load_language_model", "save")
    /\ ret.kind = "ok"
    /\ saved.model.training
    /\ saved.model.dropout > 0
    /\ saved.model.state_dict["encoder.weight"] > 0

\* The shape invariants of a model.
Widths(m) ==
    /\ m.decoder.out_features = Len(m.dictionary)
    /\ m.decoder.in_features = (IF IsNone(m.nout) THEN m.hidden_size ELSE Val(m.nout))
    /\ (~IsNone(m.proj)) <=> (~IsNone(m.nout))

\* C8: in every reachable state, for the model held and for every model a
\* loader returned, the decoder's output width is the dictionary size, its
\* input width is projection_width when a projection is configured and
\* hidden_width otherwise, and the projection exists iff nout is not None.
C8_DecoderWidths ==
    /\ HasModel => Widths(model)
    /\ (ret.op \in {"load_language_model", "load_checkpoint"} /\ ret.kind = "ok")
          => Widths(ret.model)

\* A model with a projection narrower than its hidden width came back from
\* load_checkpoint and has since run generate_text.
C8_Witness ==
    /\ HasModel
    /\ ~IsNone(model.nout)
    /\ Val(model.nout) # model.hidden_size
    /\ ~model.training
    /\ saved # NoSave
    /\ gen.pc = "returned"
    /\ Len(gen.sampled) > 0

\* C9: generate_text leaves the model as it was (weights, configuration,
\* dictionary, mode and the hidden slot set by set_hidden), at the call, in
\* every iteration and at the return; the hidden state it evolves starts
\* from init_hidden(1).
C9_GenerateTextFrame ==
    [][(gen.pc = "loop" \/ gen'.pc = "loop") =>
          /\ model' = model
          /\ (gen.pc # "loop" => gen'.hidden = init_hidden(model, 1))]_vars

\* generate_text has returned sampled text while the stored hidden slot is
\* set and differs from the state the loop ended in.
C9_Witness ==
    /\ gen.pc = "returned"
    /\ Len(gen.sampled) > 0
    /\ ~IsNone(model.hidden)
    /\ Val(model.hidden) # gen.hidden

\* C10: the first forward pass of generate_text consumes the zero hidden
\* state and an initial index in [0, N); each later pass consumes the index
\* sampled and the hidden state returned by the pass before it; every
\* sampled index lies in [0, N) and the i-th output symbol is its
\* dictionary symbol.  Stated for the configurations the constructor
\* contract admits.
C10_FeedbackOrdering ==
    (gen.pc # "idle" /\ ProperConfig(model)) =>
        LET N == Len(model.dictionary)
        IN /\ Len(gen.calls) >= 1 =>
                 /\ gen.calls[1].hidden = init_hidden(model, 1)
                 /\ gen.calls[1].input \in 0..(N - 1)
           /\ \A i \in 2..Len(gen.calls) :
                 /\ gen.calls[i].input = gen.sampled[i - 1]
                 /\ gen.calls[i].hidden = Val(gen.calls[i - 1].returned)
           /\ \A i \in 1..Len(gen.sampled) :
                 /\ gen.sampled[i] \in 0..(N - 1)
                 /\ gen.characters[i] = DecodeUTF8(model.dictionary[gen.sampled[i] + 1])

====
